---- MODULE Spec2Model ----
(***************************************************************************)
(* Model of tools/semantic_search.py: the chunker (_chunk_text), the       *)
(* background indexing run (_start_background_indexing, _index_directory,  *)
(* _process_file) and the query path (_execute) of SemanticSearchTool.     *)
(*                                                                         *)
(* Conventions                                                             *)
(*  - a Python str is a sequence of one-character strings;                 *)
(*  - offsets are 0-based as in Python, Slice(t, s, e) is t[s:e];          *)
(*  - a float score or distance is an integer number of 1e-5 units         *)
(*    (Unit == 100000 is 1.0), so round(x, 4) is rounding to a multiple    *)
(*    of 10 units.                                                         *)
(***************************************************************************)
EXTENDS Integers, Sequences, FiniteSets, TLC

(***************************************************************************)
(* Bounds of the model (not program constants).                            *)
(***************************************************************************)
\* longest text handed to the chunker in SpecChunk
MaxTextLen == 6
\* largest chunk_size tried in SpecChunk
MaxChunk == 5
\* most entries of the entry pool placed in one scanned directory
MaxEntries == 2

(***************************************************************************)
(* Strings.                                                                *)
(***************************************************************************)
Min(a, b) == IF a <= b THEN a ELSE b

\* Python's text[start:end] for 0 <= start (end is clamped to len(text)).
Slice(text, start, end) == SubSeq(text, start + 1, Min(end, Len(text)))

\* c repeated n times ("c" * n)
Rep(c, n) == [i \in 1..n |-> c]

\* the characters str.strip() removes
Whitespace == {" "}

\* chunk.strip() is the empty string
IsBlank(text) == \A i \in 1..Len(text) : text[i] \in Whitespace

(***************************************************************************)
(* _chunk_text.  ChunkLoop is the while loop (lines 378-387) entered with  *)
(* the current start offset and the chunks appended so far.                *)
(***************************************************************************)
\* mutants of NextStart: one character is skipped; the overlap is dropped;
\* the window goes back to the overlap
NextStartFromOverlap(end, overlap) == overlap

NextStartSkips(end, overlap) == end - overlap + 1

NextStartNoOverlap(end, overlap) == end

\* start = end - overlap
NextStart(end, overlap) == end - overlap

RECURSIVE ChunkLoop(_, _, _, _, _)
ChunkLoop(text, chunk_size, overlap, start, chunks) ==
    IF ~(start < Len(text))
    THEN chunks
    ELSE LET end    == start + chunk_size
             chunk  == Slice(text, start, end)
             added  == Append(chunks, chunk)
         IN  IF end >= Len(text)
             THEN added
             ELSE ChunkLoop(text, chunk_size, overlap,
                            NextStart(end, overlap), added)

ChunkText(text, chunk_size, overlap) ==
    IF Len(text) <= chunk_size
    THEN <<text>>
    ELSE ChunkLoop(text, chunk_size, overlap, 0, <<>>)

(***************************************************************************)
(* SemanticSearchConfig: the Field bounds pydantic enforces (lines 125-176) *)
(***************************************************************************)
ChunkSizeMin == 100

ChunkSizeMax == 4000

ChunkOverlapMin == 0

ChunkOverlapMax == 500

LimitMin == 1

LimitMax == 100

\* decimals kept by round(similarity, 4)
ScoreDecimals == 4

\* 1.0 in model units: one decimal more than the scores keep
Unit == 10 * (10 ^ ScoreDecimals)

\* similarity_threshold: ge=0.0, le=1.0
ThresholdMin == 0

ThresholdMax == Unit

\* file_extensions default
DefaultExtensions == {".md", ".txt", ".py", ".js", ".ts", ".yaml", ".yml"}

\* batch_size of the upsert loop
BatchSize == 100

\* self.data_model(**config): every Field constraint holds (there is no
\* model_validator relating chunk_overlap to chunk_size)
ValidConfig(c) ==
    /\ c.chunk_size >= ChunkSizeMin /\ c.chunk_size <= ChunkSizeMax
    /\ c.chunk_overlap >= ChunkOverlapMin /\ c.chunk_overlap <= ChunkOverlapMax
    /\ c.similarity_threshold >= ThresholdMin
    /\ c.similarity_threshold <= ThresholdMax
    /\ c.limit >= LimitMin /\ c.limit <= LimitMax

(***************************************************************************)
(* The scanned directory.  A file entry is                                 *)
(*   [kind |-> "file", name |-> [stem, suffix], content, decodable,        *)
(*    readable]                                                            *)
(* (decodable: the bytes are UTF-8; readable: open() succeeds), a          *)
(* directory entry is [kind |-> "dir", name, listable, children]           *)
(* (listable: iterdir() on it succeeds).                                   *)
(***************************************************************************)
\* str.lower() on the suffixes that occur
Lower(suffix) ==
    CASE suffix = ".MD"  -> ".md"
      [] suffix = ".TXT" -> ".txt"
      [] OTHER           -> suffix

\* decimal digits of n >= 0, as format() writes them
RECURSIVE Digits(_)
Digits(n) ==
    LET d == <<"0", "1", "2", "3", "4", "5", "6", "7", "8", "9">>[(n % 10) + 1]
    IN  IF n < 10 THEN <<d>> ELSE Append(Digits(n \div 10), d)

\* mutant of FormatId: the id is the position in the file alone
FormatIdChunkOnly(doc_id, i) == Digits(i)

\* f"{doc_id}_{i}"
FormatId(doc_id, i) == Digits(doc_id) \o <<"_">> \o Digits(i)

\* the accumulators of _index_directory (lines 280-284); hung: a call of
\* _chunk_text that never returns
EmptyScan ==
    [raised |-> FALSE, hung |-> FALSE,
     documents |-> <<>>, metadatas |-> <<>>, ids |-> <<>>,
     doc_id |-> 0, files_processed |-> 0]

\* the enumerate loop of _process_file (lines 358-367) from 0-based index i
RECURSIVE AppendChunks(_, _, _, _, _)
AppendChunks(acc, file_path, file, chunks, i) ==
    IF i >= Len(chunks)
    THEN acc
    ELSE LET chunk == chunks[i + 1]
             meta  == [file_path |-> file_path,
                       file_name |-> file.name,
                       chunk_index |-> i,
                       file_extension |-> file.name.suffix]
             next  == IF ~IsBlank(chunk)
                      THEN [acc EXCEPT
                              !.documents = Append(@, chunk),
                              !.metadatas = Append(@, meta),
                              !.ids = Append(@, FormatId(acc.doc_id, i))]
                      ELSE acc
         IN  AppendChunks(next, file_path, file, chunks, i + 1)

\* _chunk_text does not terminate: the loop is entered and start never grows
ChunkTextHangs(text, chunk_size, overlap) ==
    Len(text) > chunk_size /\ overlap >= chunk_size

\* mutant of ProcessFile: undecodable bytes are replaced, not refused
ProcessFileReplacesErrors(acc, file_path, file, chunk_size, overlap) ==
    IF ~file.decodable
    THEN AppendChunks(acc, file_path, file, << <<"?">> >>, 0)
    ELSE IF ChunkTextHangs(file.content, chunk_size, overlap)
    THEN [acc EXCEPT !.hung = TRUE]
    ELSE AppendChunks(acc, file_path, file,
                      ChunkText(file.content, chunk_size, overlap), 0)

\* _process_file for a file open() can read
ProcessFile(acc, file_path, file, chunk_size, overlap) ==
    IF ~file.decodable
    THEN acc
    ELSE IF ChunkTextHangs(file.content, chunk_size, overlap)
    THEN [acc EXCEPT !.hung = TRUE]
    ELSE AppendChunks(acc, file_path, file,
                      ChunkText(file.content, chunk_size, overlap), 0)

\* the try block around _process_file (lines 289-297 and 302-310)
TryProcessFile(acc, file_path, file, chunk_size, overlap) ==
    IF ~file.readable
    THEN acc
    ELSE LET after == ProcessFile(acc, file_path, file, chunk_size, overlap)
             chunks_added == Len(after.documents) - Len(acc.documents)
         IN  [after EXCEPT !.doc_id = @ + chunks_added,
                           !.files_processed = @ + 1]

\* is_file() and suffix.lower() in file_extensions
Matches(entry, extensions) ==
    entry.kind = "file" /\ Lower(entry.name.suffix) \in extensions

\* mutant of ScanSub: a directory found in a sub-directory is scanned too
RECURSIVE ScanSubDescends(_, _, _, _, _, _, _)
ScanSubDescends(acc, dir_path, children, j, chunk_size, overlap, extensions) ==
    IF j > Len(children) \/ acc.hung
    THEN acc
    ELSE LET sub_file == children[j]
             next == IF Matches(sub_file, extensions)
                     THEN TryProcessFile(acc, Append(dir_path, sub_file.name),
                                         sub_file, chunk_size, overlap)
                     ELSE IF sub_file.kind = "dir"
                     THEN ScanSubDescends(acc, Append(dir_path, sub_file.name),
                                          sub_file.children, 1,
                                          chunk_size, overlap, extensions)
                     ELSE acc
         IN  ScanSubDescends(next, dir_path, children, j + 1,
                             chunk_size, overlap, extensions)

\* the inner loop over a sub-directory (lines 300-310) from child j
RECURSIVE ScanSub(_, _, _, _, _, _, _)
ScanSub(acc, dir_path, children, j, chunk_size, overlap, extensions) ==
    IF j > Len(children) \/ acc.hung
    THEN acc
    ELSE LET sub_file == children[j]
             next == IF Matches(sub_file, extensions)
                     THEN TryProcessFile(acc, Append(dir_path, sub_file.name),
                                         sub_file, chunk_size, overlap)
                     ELSE acc
         IN  ScanSub(next, dir_path, children, j + 1,
                     chunk_size, overlap, extensions)

\* the loop over scan_path.iterdir() (lines 287-310) from entry k
RECURSIVE ScanTop(_, _, _, _, _, _, _)
ScanTop(acc, scan_path, entries, k, chunk_size, overlap, extensions) ==
    IF k > Len(entries) \/ acc.raised \/ acc.hung
    THEN acc
    ELSE LET file_path == entries[k]
             next ==
               IF Matches(file_path, extensions)
               THEN TryProcessFile(acc, Append(scan_path, file_path.name),
                                   file_path, chunk_size, overlap)
               ELSE IF file_path.kind = "dir"
               THEN IF ~file_path.listable
                    THEN [acc EXCEPT !.raised = TRUE]
                    ELSE ScanSub(acc, Append(scan_path, file_path.name),
                                 file_path.children, 1,
                                 chunk_size, overlap, extensions)
               ELSE acc
         IN  ScanTop(next, scan_path, entries, k + 1,
                     chunk_size, overlap, extensions)

(***************************************************************************)
(* The vector store (the chromadb collection).  An entry is                *)
(* [id, document, metadata, embedding]; a vector is represented by the     *)
(* provider whose space it lies in, and by the distances a query observes. *)
(***************************************************************************)
\* embedding_provider: Literal["huggingface", "vertexai"]
Providers == {"huggingface", "vertexai"}

\* embedding_provider.embed_texts(batch_docs): one vector per document
EmbedTexts(provider, batch_docs) ==
    [k \in 1..Len(batch_docs) |-> [provider |-> provider]]

\* os.path.join(scan_directory, f".chroma_db_{name}") (line 212)
ChromaPath(scan_directory, name) == Append(scan_directory, <<".chroma_db_", name>>)

\* f"semantic_search_{name}" (line 217)
CollectionName(name) == <<"semantic_search_", name>>

\* the persistent collection a configuration and a name resolve to
CollectionIdentity(scan_directory, name, provider) ==
    [path |-> ChromaPath(scan_directory, name), name |-> CollectionName(name)]

StoreIds(entries) == {e.id : e \in entries}

\* mutant of CollectionAdd: the last record of the batch is left out
CollectionAddDropsLast(entries, batch_docs, batch_metas, batch_ids, batch_embeddings) ==
    entries \cup
      {[id |-> batch_ids[k], document |-> batch_docs[k],
        metadata |-> batch_metas[k], embedding |-> batch_embeddings[k]] :
         k \in {j \in 1..(Len(batch_ids) - 1) :
                  batch_ids[j] \notin {e.id : e \in entries}}}

\* collection.add of one batch: a record whose id is already in the
\* collection is ignored
CollectionAdd(entries, batch_docs, batch_metas, batch_ids, batch_embeddings) ==
    entries \cup
      {[id |-> batch_ids[k], document |-> batch_docs[k],
        metadata |-> batch_metas[k], embedding |-> batch_embeddings[k]] :
         k \in {j \in 1..Len(batch_ids) : batch_ids[j] \notin StoreIds(entries)}}

\* collection.count()
CollectionCount(entries) == Cardinality(entries)

\* the n nearest entries in ascending distance, dist giving each document's
\* distance to the query; equal distances are ordered as the store likes
RECURSIVE Nearest(_, _, _)
Nearest(entries, dist, n) ==
    IF n <= 0 \/ entries = {}
    THEN <<>>
    ELSE LET best == CHOOSE e \in entries :
                       \A o \in entries : dist[e.document] <= dist[o.document]
         IN  <<best>> \o Nearest(entries \ {best}, dist, n - 1)

(***************************************************************************)
(* _execute: the result formatting loop (lines 437-458).                   *)
(***************************************************************************)
\* round(x, 4): to the nearest multiple of 10 units, a tie to the even one
Round4(x) ==
    LET q == x \div 10
        r == x % 10
    IN  IF r < 5 THEN 10 * q
        ELSE IF r > 5 THEN 10 * (q + 1)
        ELSE IF q % 2 = 0 THEN 10 * q ELSE 10 * (q + 1)

\* similarity = 1 - distance
Similarity(distance) == Unit - distance

\* the test that admits a candidate to search_results (line 450)
PassesThreshold(similarity, similarity_threshold) ==
    similarity >= similarity_threshold

\* one element of search_results (lines 451-458)
ResultEntry(entry, similarity) ==
    [content |-> entry.document,
     similarity_score |-> Round4(similarity),
     file_path |-> entry.metadata.file_path,
     file_name |-> entry.metadata.file_name,
     chunk_index |-> entry.metadata.chunk_index,
     file_extension |-> entry.metadata.file_extension]

\* mutant of AddResult: the item is put in front
AddResultFront(search_results, item) == <<item>> \o search_results

\* search_results.append(item)
AddResult(search_results, item) == Append(search_results, item)

\* the loop over the candidates from index k, out being
\* [results |-> search_results, all |-> all_similarities]
RECURSIVE FormatLoop(_, _, _, _, _)
FormatLoop(candidates, dist, similarity_threshold, k, out) ==
    IF k > Len(candidates)
    THEN out
    ELSE LET similarity == Similarity(dist[candidates[k].document])
             seen == [out EXCEPT !.all = Append(@, Round4(similarity))]
             next == IF PassesThreshold(similarity, similarity_threshold)
                     THEN [seen EXCEPT !.results =
                             AddResult(@, ResultEntry(candidates[k], similarity))]
                     ELSE seen
         IN  FormatLoop(candidates, dist, similarity_threshold, k + 1, next)

\* the values _execute returns, as records of one shape: status "none"
\* stands for a dict without a status key
NoResult ==
    [status |-> "none", has_error |-> FALSE, query |-> "",
     results |-> <<>>, results_count |-> 0, all_similarities |-> <<>>,
     limit |-> 0, similarity_threshold |-> 0]

\* {"error": "Query parameter is required"}
MissingQueryResult == [NoResult EXCEPT !.has_error = TRUE]

\* {"status": "indexing_in_progress", ...}
WaitingResult(query) ==
    [NoResult EXCEPT !.status = "indexing_in_progress", !.query = query]

\* mutant of ErrorResult: the query is left out of the error result
ErrorResultNoQuery(query) ==
    [NoResult EXCEPT !.status = "error", !.has_error = TRUE]

\* {"status": "error", "error": str(e), "query": query}
ErrorResult(query) ==
    [NoResult EXCEPT !.status = "error", !.has_error = TRUE, !.query = query]

\* {"status": "success", ...}
SuccessResult(query, out, limit, similarity_threshold) ==
    [status |-> "success", has_error |-> FALSE, query |-> query,
     results |-> out.results, results_count |-> Len(out.results),
     all_similarities |-> out.all,
     limit |-> limit, similarity_threshold |-> similarity_threshold]

(***************************************************************************)
(* State.                                                                  *)
(***************************************************************************)
VARIABLES
    ck_pc,        \* chunker call: "off", "call", "enter", "loop", "returned"
    ck_text,      \* its argument text
    ck_size,      \* tool_config.chunk_size of the call
    ck_overlap,   \* tool_config.chunk_overlap of the call
    ck_chunks,    \* its list chunks
    ck_start,     \* its local start
    tool,         \* "off", "new", "ready" (constructed), "config_error"
    config,       \* the configuration handed to __init__
    fs,           \* the scan directory: [exists, entries]
    collection,   \* the entries of the persistent collection
    indexing_complete,  \* self._indexing_complete
    indexing_lock,      \* holder of self._indexing_lock, or "free"
    threads,      \* the threads that run index_worker
    wpc,          \* where each of them is
    wloc,         \* the locals of its _index_directory
    cpc,          \* where the current _execute call is
    cargs,        \* its query
    ccount,       \* its collection_count
    cres          \* what it returned

ck_vars == <<ck_pc, ck_text, ck_size, ck_overlap, ck_chunks, ck_start>>

tool_vars == <<tool, config, fs, collection, indexing_complete, indexing_lock,
               threads, wpc, wloc, cpc, cargs, ccount, cres>>

worker_vars == <<threads, wpc, wloc>>

caller_vars == <<cpc, cargs, ccount, cres>>

vars == <<ck_pc, ck_text, ck_size, ck_overlap, ck_chunks, ck_start,
          tool, config, fs, collection, indexing_complete, indexing_lock,
          threads, wpc, wloc, cpc, cargs, ccount, cres>>

(***************************************************************************)
(* Inputs: configurations, directories, a collection left by an earlier    *)
(* process, and the arguments of a search call.                            *)
(***************************************************************************)
\* chunk_size and chunk_overlap around their Field bounds; the other fields
\* are the defaults, with a default limit small enough to cut a result list
RawConfigs ==
    {[chunk_size |-> cs, chunk_overlap |-> co,
      similarity_threshold |-> 3 * (Unit \div 10), limit |-> 2,
      file_extensions |-> DefaultExtensions,
      embedding_provider |-> "huggingface"] :
        cs \in {ChunkSizeMin - 1, ChunkSizeMin},
        co \in {0, 20, ChunkSizeMin, ChunkOverlapMax + 1}}

\* a file or directory name: its stem (a tuple of parts) and its suffix
Name(stem, suffix) == [stem |-> stem, suffix |-> suffix]

File(stem, suffix, content) ==
    [kind |-> "file", name |-> Name(stem, suffix), content |-> content,
     decodable |-> TRUE, readable |-> TRUE,
     listable |-> FALSE, children |-> <<>>]

Dir(stem, listable, children) ==
    [kind |-> "dir", name |-> Name(stem, ""), content |-> <<>>,
     decodable |-> FALSE, readable |-> FALSE,
     listable |-> listable, children |-> children]

\* a text longer than two smallest chunks that starts with a blank chunk
LongText == Rep(" ", ChunkSizeMin) \o Rep("a", ChunkSizeMin + 50)

\* the entries a scanned directory is composed of
EntryPool ==
    << File(<<"short">>, ".md", <<"a", "b">>),
       File(<<"long">>, ".txt", LongText),
       File(<<"blank">>, ".md", <<" ", " ">>),
       [File(<<"image">>, ".md", <<>>) EXCEPT !.decodable = FALSE],
       File(<<"data">>, ".bin", <<"a", "b">>),
       [File(<<"locked">>, ".md", <<"a", "b">>) EXCEPT !.readable = FALSE],
       Dir(<<"sub">>, TRUE,
           << File(<<"README">>, ".MD", <<"c", " ", "d">>),
              Dir(<<"deeper">>, TRUE, << File(<<"deep">>, ".md", <<"e">>) >>) >>),
       Dir(<<"noperm">>, FALSE, <<>>) >>

\* the elements of seq at the indexes in S, in order
RECURSIVE Pick(_, _, _)
Pick(seq, S, k) ==
    IF k > Len(seq) THEN <<>>
    ELSE (IF k \in S THEN <<seq[k]>> ELSE <<>>) \o Pick(seq, S, k + 1)

\* one batch and one chunk more, from as many one-chunk files
ManyFiles ==
    [k \in 1..(BatchSize + 1) |-> File(<<"note", k>>, ".txt", <<"a">>)]

\* the directories of at most n pool entries, in pool order
LayoutsUpTo(n) ==
    {Pick(EntryPool, S, 1) :
        S \in {T \in SUBSET (1..Len(EntryPool)) : Cardinality(T) <= n}}

DirectoriesOf(layouts) ==
    {[exists |-> FALSE, entries |-> <<>>]}
    \cup {[exists |-> TRUE, entries |-> l] : l \in layouts}

Directories == DirectoriesOf(LayoutsUpTo(MaxEntries) \cup {ManyFiles})

\* the directories tried with a second trigger
TriggerDirectories == DirectoriesOf(LayoutsUpTo(1))

\* Path(self.tool_config.scan_directory)
ScanPath == <<Name(<<"docs">>, "")>>

\* the name the tool is constructed with
ToolName == "docs_search"

\* what an earlier process, configured with the other provider, left under
\* the same directory and name
PriorCollection ==
    {[id |-> FormatId(0, 0), document |-> <<"o", "l", "d">>,
      embedding |-> [provider |-> "vertexai"],
      metadata |-> [file_path |-> Append(ScanPath, Name(<<"old">>, ".md")),
                    file_name |-> Name(<<"old">>, ".md"),
                    chunk_index |-> 0, file_extension |-> ".md"]]}

\* what an earlier process whose file_extensions held ".bin" left there:
\* the chunk of data.bin, the first file it scanned
PriorOtherExtensions ==
    {[id |-> FormatId(0, 0), document |-> <<"a", "b">>,
      embedding |-> [provider |-> "huggingface"],
      metadata |-> [file_path |-> Append(ScanPath, Name(<<"data">>, ".bin")),
                    file_name |-> Name(<<"data">>, ".bin"),
                    chunk_index |-> 0, file_extension |-> ".bin"]]}

\* the collection get_or_create_collection finds (lines 212-219)
StoredCollections == {{}, PriorCollection, PriorOtherExtensions}

\* cosine distances a query may observe: 0, 0.69996 and 1.5
Distances == {0, 7 * (Unit \div 10) - 4, Unit + 5 * (Unit \div 10)}

\* the query of a call: missing or empty, or a text
Queries == {"", "q"}

\* the limit a caller may supply in params
CallerLimits == {0, 1}

\* the similarity_threshold a caller may supply: 0.30003 and -1.0
CallerThresholds == {3 * (Unit \div 10) + 3, 0 - Unit}

AllThreads == {"w1", "w2"}

IdleRun == [scan |-> EmptyScan, i |-> 0, outcome |-> "none"]

(***************************************************************************)
(* Construction (__init__, lines 198-226) and the state before it.         *)
(***************************************************************************)
InitTool(spawn, directories) ==
    /\ tool = "new"
    /\ config \in RawConfigs
    /\ fs \in directories
    /\ collection \in StoredCollections
    /\ indexing_complete = FALSE
    /\ indexing_lock = "free"
    /\ threads = spawn
    /\ wpc = [t \in AllThreads |-> "absent"]
    /\ wloc = [t \in AllThreads |-> IdleRun]
    /\ cpc = "idle"
    /\ cargs = ""
    /\ ccount = 0
    /\ cres = NoResult

ChunkerOff ==
    /\ ck_pc = "off"
    /\ ck_text = <<>>
    /\ ck_size = 1
    /\ ck_overlap = 0
    /\ ck_chunks = <<>>
    /\ ck_start = 0

\* one instance, whose constructor starts the one background thread
Init == ChunkerOff /\ InitTool({"w1"}, Directories)

\* the same with a second concurrent trigger of index_worker
InitTriggers == ChunkerOff /\ InitTool(AllThreads, TriggerDirectories)

Construct ==
    /\ tool = "new"
    /\ IF ValidConfig(config)
       THEN /\ tool' = "ready"
            /\ indexing_complete' = FALSE
            /\ indexing_lock' = "free"
            /\ wpc' = [t \in AllThreads |->
                         IF t \in threads THEN "spawned" ELSE "absent"]
       ELSE /\ tool' = "config_error"
            /\ UNCHANGED <<indexing_complete, indexing_lock, wpc>>
    /\ UNCHANGED <<config, fs, collection, threads, wloc>>
    /\ UNCHANGED caller_vars
    /\ UNCHANGED ck_vars

(***************************************************************************)
(* index_worker and _index_directory, one action per step another thread   *)
(* can observe.                                                            *)
(***************************************************************************)
\* mutant of LockAvailable: the routine is entered without the lock
LockIgnored(lock) == TRUE

\* with self._indexing_lock: the lock can be taken
LockAvailable(lock) == lock = "free"

\* mutant of HandlerFlag: a failed run is marked not complete
HandlerFlagReset == FALSE

\* the value the exception handler of index_worker stores (line 260)
HandlerFlag == TRUE

\* mutant of CompletedFlag: a run that finds nothing leaves the flag unset
CompletedFlagUnset == FALSE

\* the value a finished run stores (lines 277 and 343)
CompletedFlag == TRUE

\* mutant of AfterBatchFailure: the return is missing and control falls
\* through to the assignment of line 343
AfterBatchFailureFallsThrough == "mark"

\* where the except of lines 335-339 goes on: return, out of the with block
AfterBatchFailure == "exit"

\* mutant of AfterRun: a run whose batch failed is started again
AfterRunRetries(outcome) ==
    IF outcome = "raised" THEN "handler"
    ELSE IF outcome = "batch_failed" THEN "spawned"
    ELSE "done"

\* index_worker after _index_directory (lines 253-260): an exception goes
\* to the handler, a return ends the thread
AfterRun(outcome) == IF outcome = "raised" THEN "handler" ELSE "done"

Goto(t, pc) == wpc' = [wpc EXCEPT ![t] = pc]

\* lines 335-339: a batch raised
FailBatch(t) ==
    /\ wpc' = [wpc EXCEPT ![t] = AfterBatchFailure]
    /\ wloc' = [wloc EXCEPT ![t].outcome = "batch_failed"]

Leave(t, outcome) ==
    /\ wpc' = [wpc EXCEPT ![t] = "exit"]
    /\ wloc' = [wloc EXCEPT ![t].outcome = outcome]

\* line 268: enter the with block
AcquireLock(t) ==
    /\ wpc[t] = "spawned"
    /\ LockAvailable(indexing_lock)
    /\ indexing_lock' = t
    /\ Goto(t, "check_complete")
    /\ UNCHANGED <<tool, config, fs, collection, indexing_complete,
                   threads, wloc>>
    /\ UNCHANGED caller_vars
    /\ UNCHANGED ck_vars

\* mutant of AlreadyComplete: the run does not look at the flag
AlreadyCompleteIgnored(complete) == FALSE

\* if self._indexing_complete (line 269)
AlreadyComplete(complete) == complete

\* lines 269-270
CheckComplete(t) ==
    /\ wpc[t] = "check_complete"
    /\ IF AlreadyComplete(indexing_complete)
       THEN Leave(t, "noop")
       ELSE Goto(t, "check_exists") /\ UNCHANGED wloc
    /\ UNCHANGED <<tool, config, fs, collection, indexing_complete,
                   indexing_lock, threads>>
    /\ UNCHANGED caller_vars
    /\ UNCHANGED ck_vars

\* lines 274-278
CheckExists(t) ==
    /\ wpc[t] = "check_exists"
    /\ IF ~fs.exists
       THEN /\ indexing_complete' = CompletedFlag
            /\ Leave(t, "missing_dir")
       ELSE /\ Goto(t, "scan")
            /\ UNCHANGED <<indexing_complete, wloc>>
    /\ UNCHANGED <<tool, config, fs, collection, indexing_lock, threads>>
    /\ UNCHANGED caller_vars
    /\ UNCHANGED ck_vars

\* lines 280-312 and the test of line 315; iterdir() of the scan directory
\* itself may raise
Scan(t) ==
    /\ wpc[t] = "scan"
    /\ \E iterdir_raises \in BOOLEAN :
         LET scan == ScanTop(EmptyScan, ScanPath, fs.entries, 1,
                             config.chunk_size, config.chunk_overlap,
                             config.file_extensions)
         IN  IF iterdir_raises
             THEN Leave(t, "raised")
             ELSE IF scan.hung
             THEN Goto(t, "hung") /\ UNCHANGED wloc
             ELSE IF scan.raised
             THEN Leave(t, "raised")
             ELSE /\ wloc' = [wloc EXCEPT ![t].scan = scan, ![t].i = 0]
                  /\ Goto(t, IF scan.documents # <<>> THEN "embed" ELSE "mark")
    /\ UNCHANGED <<tool, config, fs, collection, indexing_complete,
                   indexing_lock, threads>>
    /\ UNCHANGED caller_vars
    /\ UNCHANGED ck_vars

\* line 324: embed_texts(batch_docs) returns or raises
EmbedBatch(t) ==
    /\ wpc[t] = "embed"
    /\ \E raises \in BOOLEAN :
         IF raises
         THEN FailBatch(t)
         ELSE Goto(t, "add") /\ UNCHANGED wloc
    /\ UNCHANGED <<tool, config, fs, collection, indexing_complete,
                   indexing_lock, threads>>
    /\ UNCHANGED caller_vars
    /\ UNCHANGED ck_vars

\* lines 319-321 and 326-331: collection.add of the batch at i returns or
\* raises; then the next i of range(0, len(documents), batch_size)
AddBatch(t) ==
    /\ wpc[t] = "add"
    /\ \E raises \in BOOLEAN :
         LET scan == wloc[t].scan
             i    == wloc[t].i
         IN  IF raises
             THEN FailBatch(t) /\ UNCHANGED collection
             ELSE /\ collection' =
                       CollectionAdd(collection,
                                     Slice(scan.documents, i, i + BatchSize),
                                     Slice(scan.metadatas, i, i + BatchSize),
                                     Slice(scan.ids, i, i + BatchSize),
                                     EmbedTexts(config.embedding_provider,
                                       Slice(scan.documents, i, i + BatchSize)))
                  /\ wloc' = [wloc EXCEPT ![t].i = i + BatchSize]
                  /\ Goto(t, IF i + BatchSize < Len(scan.documents)
                             THEN "embed" ELSE "mark")
    /\ UNCHANGED <<tool, config, fs, indexing_complete, indexing_lock, threads>>
    /\ UNCHANGED caller_vars
    /\ UNCHANGED ck_vars

\* line 343
MarkComplete(t) ==
    /\ wpc[t] = "mark"
    /\ indexing_complete' = CompletedFlag
    /\ Leave(t, "complete")
    /\ UNCHANGED <<tool, config, fs, collection, indexing_lock, threads>>
    /\ UNCHANGED caller_vars
    /\ UNCHANGED ck_vars

\* mutant of ReleaseLock: the block is left with the lock still held
ReleaseLockLeaks(t) ==
    /\ wpc[t] = "exit"
    /\ Goto(t, AfterRun(wloc[t].outcome))
    /\ wloc' = [wloc EXCEPT ![t].scan = EmptyScan, ![t].i = 0]
    /\ UNCHANGED <<tool, config, fs, collection, indexing_complete,
                   indexing_lock, threads>>
    /\ UNCHANGED caller_vars
    /\ UNCHANGED ck_vars

\* leaving the with block (return or exception): the lock is released and
\* the locals are gone; an exception goes on to the handler of index_worker
ReleaseLock(t) ==
    /\ wpc[t] = "exit"
    /\ indexing_lock' = "free"
    /\ Goto(t, AfterRun(wloc[t].outcome))
    /\ wloc' = [wloc EXCEPT ![t].scan = EmptyScan, ![t].i = 0]
    /\ UNCHANGED <<tool, config, fs, collection, indexing_complete, threads>>
    /\ UNCHANGED caller_vars
    /\ UNCHANGED ck_vars

\* lines 255-260: except Exception in index_worker
WorkerHandler(t) ==
    /\ wpc[t] = "handler"
    /\ indexing_complete' = HandlerFlag
    /\ Goto(t, "done")
    /\ UNCHANGED <<tool, config, fs, collection, indexing_lock, threads, wloc>>
    /\ UNCHANGED caller_vars
    /\ UNCHANGED ck_vars

(***************************************************************************)
(* _execute, one action per step the indexing thread can interleave with.  *)
(* The coroutine has no await, so calls on the event loop run one at a     *)
(* time: there is one current call.                                        *)
(***************************************************************************)
\* mutant of ExecuteBlocked: the call waits for the indexing lock
ExecuteBlockedByLock(lock) == lock # "free"

\* _execute never takes self._indexing_lock: no holder of it stops a step
ExecuteBlocked(lock) == FALSE

\* mutant of StillIndexing: the negation of the flag is lost
StillIndexingInverted(complete, collection_count) ==
    complete /\ collection_count = 0

\* the test of line 405
StillIndexing(complete, collection_count) ==
    ~complete /\ collection_count = 0

\* mutant of ReconciledFlag: the elif never writes the flag
ReconciledFlagKept(complete, collection_count) == complete

\* lines 422-425: the flag after the elif
ReconciledFlag(complete, collection_count) ==
    IF ~complete /\ collection_count > 0 THEN TRUE ELSE complete

Return(result) ==
    /\ cpc' = "returned"
    /\ cres' = result

\* mutant of NResults: one candidate more than the limit is asked for
NResultsOneMore(limit) == limit + 1

\* n_results=limit (line 433)
NResults(limit) == limit

\* params.get(key, default) of lines 398-399
ParamOrDefault(supplied, default) == supplied \cup {default}

\* lines 393-395.  limit and similarity_threshold are read from params
\* next (lines 398-399) and used first at lines 433 and 450, where the
\* model draws them.
ExecuteBegin ==
    /\ tool = "ready"
    /\ cpc = "idle"
    /\ ~ExecuteBlocked(indexing_lock)
    /\ \E query \in Queries :
         IF query = ""
         THEN Return(MissingQueryResult) /\ UNCHANGED cargs
         ELSE /\ cargs' = query
              /\ cpc' = "count"
              /\ UNCHANGED cres
    /\ UNCHANGED ccount
    /\ UNCHANGED <<tool, config, fs, collection, indexing_complete,
                   indexing_lock>>
    /\ UNCHANGED worker_vars
    /\ UNCHANGED ck_vars

\* line 403: collection.count() returns or raises
ExecuteCount ==
    /\ cpc = "count"
    /\ ~ExecuteBlocked(indexing_lock)
    /\ \E raises \in BOOLEAN :
         IF raises
         THEN Return(ErrorResult(cargs)) /\ UNCHANGED ccount
         ELSE /\ ccount' = CollectionCount(collection)
              /\ cpc' = "gate"
              /\ UNCHANGED cres
    /\ UNCHANGED cargs
    /\ UNCHANGED <<tool, config, fs, collection, indexing_complete,
                   indexing_lock>>
    /\ UNCHANGED worker_vars
    /\ UNCHANGED ck_vars

\* lines 405-421
ExecuteGate ==
    /\ cpc = "gate"
    /\ ~ExecuteBlocked(indexing_lock)
    /\ IF StillIndexing(indexing_complete, ccount)
       THEN Return(WaitingResult(cargs))
       ELSE cpc' = "reconcile" /\ UNCHANGED cres
    /\ UNCHANGED <<cargs, ccount>>
    /\ UNCHANGED <<tool, config, fs, collection, indexing_complete,
                   indexing_lock>>
    /\ UNCHANGED worker_vars
    /\ UNCHANGED ck_vars

\* lines 422-425
ExecuteReconcile ==
    /\ cpc = "reconcile"
    /\ ~ExecuteBlocked(indexing_lock)
    /\ indexing_complete' = ReconciledFlag(indexing_complete, ccount)
    /\ cpc' = "embed"
    /\ UNCHANGED <<cargs, ccount, cres>>
    /\ UNCHANGED <<tool, config, fs, collection, indexing_lock>>
    /\ UNCHANGED worker_vars
    /\ UNCHANGED ck_vars

\* line 428: embed_query(query) returns or raises
ExecuteEmbed ==
    /\ cpc = "embed"
    /\ ~ExecuteBlocked(indexing_lock)
    /\ \E raises \in BOOLEAN :
         IF raises
         THEN Return(ErrorResult(cargs))
         ELSE cpc' = "query" /\ UNCHANGED cres
    /\ UNCHANGED <<cargs, ccount>>
    /\ UNCHANGED <<tool, config, fs, collection, indexing_complete,
                   indexing_lock>>
    /\ UNCHANGED worker_vars
    /\ UNCHANGED ck_vars

\* lines 398-399 and 431-475: collection.query raises (it always does for
\* n_results < 1) or returns the nearest candidates, which are formatted
ExecuteQuery ==
    /\ cpc = "query"
    /\ ~ExecuteBlocked(indexing_lock)
    /\ \/ Return(ErrorResult(cargs))
       \/ \E limit \in ParamOrDefault(CallerLimits, config.limit),
             similarity_threshold \in
                 ParamOrDefault(CallerThresholds, config.similarity_threshold),
             dist \in [{e.document : e \in collection} -> Distances] :
            /\ limit >= 1
            /\ LET candidates == Nearest(collection, dist, NResults(limit))
                   out == FormatLoop(candidates, dist, similarity_threshold, 1,
                                     [results |-> <<>>, all |-> <<>>])
               IN  Return(SuccessResult(cargs, out, limit,
                                        similarity_threshold))
    /\ UNCHANGED <<cargs, ccount>>
    /\ UNCHANGED <<tool, config, fs, collection, indexing_complete,
                   indexing_lock>>
    /\ UNCHANGED worker_vars
    /\ UNCHANGED ck_vars

\* the caller takes the result; the next call may start
ExecuteDone ==
    /\ cpc = "returned"
    /\ cpc' = "idle"
    /\ cargs' = ""
    /\ ccount' = 0
    /\ cres' = NoResult
    /\ UNCHANGED <<tool, config, fs, collection, indexing_complete,
                   indexing_lock>>
    /\ UNCHANGED worker_vars
    /\ UNCHANGED ck_vars

(***************************************************************************)
(* Specifications.                                                         *)
(***************************************************************************)
Next ==
    \/ Construct
    \/ \E t \in threads : AcquireLock(t)
    \/ \E t \in threads : CheckComplete(t)
    \/ \E t \in threads : CheckExists(t)
    \/ \E t \in threads : Scan(t)
    \/ \E t \in threads : EmbedBatch(t)
    \/ \E t \in threads : AddBatch(t)
    \/ \E t \in threads : MarkComplete(t)
    \/ \E t \in threads : ReleaseLock(t)
    \/ \E t \in threads : WorkerHandler(t)
    \/ ExecuteBegin
    \/ ExecuteCount
    \/ ExecuteGate
    \/ ExecuteReconcile
    \/ ExecuteEmbed
    \/ ExecuteQuery
    \/ ExecuteDone

\* the tool as the code builds it: one background thread, one event loop
Spec == Init /\ [][Next]_vars

\* the directories tried under fair scheduling: those of short files
LiveDirectories ==
    DirectoriesOf({l \in LayoutsUpTo(MaxEntries) :
                     \A k \in 1..Len(l) : Len(l[k].content) < ChunkSizeMin})

\* the tool with two concurrent runs of index_worker
SpecTriggers == InitTriggers /\ [][Next]_vars

\* the steps of the threads that run index_worker
WorkerNext ==
    \E t \in threads :
        \/ AcquireLock(t)
        \/ CheckComplete(t)
        \/ CheckExists(t)
        \/ Scan(t)
        \/ EmbedBatch(t)
        \/ AddBatch(t)
        \/ MarkComplete(t)
        \/ ReleaseLock(t)
        \/ WorkerHandler(t)

\* threading.Thread(...).start(): a started thread that can take a step is
\* scheduled in the end; nothing obliges a caller to search
InitLive == ChunkerOff /\ InitTool({"w1"}, LiveDirectories)

SpecLive == InitLive /\ [][Next]_vars /\ WF_vars(WorkerNext)

(***************************************************************************)
(* The chunker on its own: inputs drawn from bounded sets.                 *)
(***************************************************************************)
ToolOff ==
    /\ tool = "off"
    /\ config = CHOOSE c \in RawConfigs : ValidConfig(c)
    /\ fs = [exists |-> FALSE, entries |-> <<>>]
    /\ collection = {}
    /\ indexing_complete = FALSE
    /\ indexing_lock = "free"
    /\ threads = {}
    /\ wpc = [t \in AllThreads |-> "absent"]
    /\ wloc = [t \in AllThreads |-> IdleRun]
    /\ cpc = "idle"
    /\ cargs = ""
    /\ ccount = 0
    /\ cres = NoResult

TextChars == {"a", " "}

RECURSIVE TextsOfLen(_)
TextsOfLen(n) ==
    IF n = 0 THEN {<<>>}
    ELSE {Append(t, c) : t \in TextsOfLen(n - 1), c \in TextChars}

\* the text of the documented example
ExampleText == <<"A", "B", "C", "D", "E", "F", "G", "H", "I", "J">>

ChunkerTexts == UNION {TextsOfLen(n) : n \in 0..MaxTextLen} \cup {ExampleText}

InitChunk ==
    /\ ToolOff
    /\ ck_pc = "call"
    /\ ck_text \in ChunkerTexts
    /\ ck_size \in 1..MaxChunk
    /\ ck_overlap \in 0..(ck_size - 1)
    /\ ck_chunks = <<>>
    /\ ck_start = 0

CallChunkText ==
    /\ ck_pc = "call"
    /\ ck_chunks' = ChunkText(ck_text, ck_size, ck_overlap)
    /\ ck_pc' = "returned"
    /\ UNCHANGED <<ck_text, ck_size, ck_overlap, ck_start>>
    /\ UNCHANGED tool_vars

NextChunk == CallChunkText

SpecChunk == InitChunk /\ [][NextChunk]_vars

(***************************************************************************)
(* The chunker one loop iteration at a time.                               *)
(***************************************************************************)
InitChunkLoop ==
    /\ ToolOff
    /\ ck_pc = "enter"
    /\ ck_text \in ChunkerTexts
    /\ ck_size \in 1..MaxChunk
    /\ ck_overlap \in 0..(ck_size - 1)
    /\ ck_chunks = <<>>
    /\ ck_start = 0

\* lines 371-378: the early return, or start = 0
ChunkEnter ==
    /\ ck_pc = "enter"
    /\ IF Len(ck_text) <= ck_size
       THEN ck_chunks' = <<ck_text>> /\ ck_pc' = "returned"
       ELSE ck_chunks' = <<>> /\ ck_pc' = "loop"
    /\ ck_start' = 0
    /\ UNCHANGED <<ck_text, ck_size, ck_overlap>>
    /\ UNCHANGED tool_vars

\* lines 379-389: the loop test and one pass of the body
ChunkIterate ==
    /\ ck_pc = "loop"
    /\ IF ~(ck_start < Len(ck_text))
       THEN ck_pc' = "returned" /\ UNCHANGED <<ck_chunks, ck_start>>
       ELSE LET end == ck_start + ck_size
            IN  /\ ck_chunks' = Append(ck_chunks, Slice(ck_text, ck_start, end))
                /\ IF end >= Len(ck_text)
                   THEN ck_pc' = "returned" /\ UNCHANGED ck_start
                   ELSE /\ ck_pc' = "loop"
                        /\ ck_start' = NextStart(end, ck_overlap)
    /\ UNCHANGED <<ck_text, ck_size, ck_overlap>>
    /\ UNCHANGED tool_vars

NextChunkLoop ==
    \/ ChunkEnter
    \/ ChunkIterate

\* the thread that runs the loop keeps running
SpecChunkLoop ==
    InitChunkLoop /\ [][NextChunkLoop]_vars /\ WF_vars(NextChunkLoop)

(***************************************************************************)
(* Properties.                                                             *)
(***************************************************************************)
Returned(status) == cpc = "returned" /\ cres.status = status

Scores(results) == [k \in 1..Len(results) |-> results[k].similarity_score]

NonIncreasing(seq) == \A k \in 1..(Len(seq) - 1) : seq[k] >= seq[k + 1]

\* a is b with some elements left out
RECURSIVE IsSubsequence(_, _)
IsSubsequence(a, b) ==
    IF a = <<>> THEN TRUE
    ELSE IF b = <<>> THEN FALSE
    ELSE IF Head(a) = Head(b) /\ IsSubsequence(Tail(a), Tail(b)) THEN TRUE
    ELSE IsSubsequence(a, Tail(b))

\* the threads inside the with block of _index_directory
InRoutine ==
    {t \in threads :
        wpc[t] \in {"check_complete", "check_exists", "scan", "hung",
                    "embed", "add", "mark", "exit"}}

\* C1 (pre-index gating): a search call that, at the test of line 405, reads
\* the flag as not complete and has counted an empty collection returns the
\* waiting status with no results and no error, whatever the indexing
\* thread has done since the count.
C1_PreIndexGating ==
    [][(cpc = "gate" /\ ~indexing_complete /\ ccount = 0 /\ cpc' # cpc)
         => /\ cpc' = "returned"
            /\ cres'.status = "indexing_in_progress"
            /\ cres'.results = <<>>
            /\ cres'.results_count = 0
            /\ ~cres'.has_error]_vars

\* a call returned the waiting status while the run was upserting, the
\* collection being non-empty by then
C1_Witness ==
    /\ Returned("indexing_in_progress")
    /\ collection # {}
    /\ \E t \in threads : wpc[t] \in {"embed", "add", "mark"}

\* C2 (reconciliation): a search call that has counted a non-empty
\* collection goes on from the elif of line 422 to the query embedding
\* with the flag set, never returns the waiting status, and the flag is
\* set when it returns.
C2_Reconciliation ==
    [][(cpc \in {"reconcile", "embed", "query"} /\ ccount > 0 /\ cpc' # cpc)
         => /\ indexing_complete'
            /\ cpc = "reconcile" => cpc' = "embed"
            /\ cpc' = "returned" => cres'.status \in {"success", "error"}]_vars

\* a call answered from the collection and the flag is set although no
\* indexing run has set it
C2_Witness ==
    /\ Returned("success")
    /\ cres.results # <<>>
    /\ indexing_complete
    /\ \A t \in threads : wpc[t] \in {"spawned", "check_exists", "scan",
                                      "embed", "add"}

\* C3 (monotone flag): no step takes _indexing_complete from True to False.
C3_FlagMonotone == [][indexing_complete => indexing_complete']_vars

\* the flag is set (by a search call) and a run has since failed a batch
\* and ended
C3_Witness ==
    /\ indexing_complete
    /\ \E t \in threads : wpc[t] = "done" /\ wloc[t].outcome = "batch_failed"

\* C4 (mutual exclusion): at most one thread is inside the with block of
\* _index_directory, which holds its scan, embed and upsert steps.
C4_MutualExclusion == Cardinality(InRoutine) <= 1

\* one trigger is upserting while the other waits for the lock
C4_Witness ==
    \E t \in threads, u \in threads :
        t # u /\ wpc[t] = "add" /\ wpc[u] = "spawned"

\* C5 (chunk coverage): the chunks are the substrings of the text at the
\* strictly increasing offsets 0, C-O, 2(C-O), ..., every character
\* position lies in one of them, and a text no longer than chunk_size
\* (the empty text too) comes back as the one chunk that is the text.
C5_ChunkCoverage ==
    ck_pc = "returned" =>
      LET n == Len(ck_chunks)
          start(k) == (k - 1) * (ck_size - ck_overlap)
      IN  /\ n >= 1
          /\ \A k \in 1..n :
               ck_chunks[k] =
                 Slice(ck_text, start(k), start(k) + Len(ck_chunks[k]))
          /\ \A k \in 1..(n - 1) : start(k) < start(k + 1)
          /\ \A p \in 0..(Len(ck_text) - 1) :
               \E k \in 1..n :
                 start(k) <= p /\ p < start(k) + Len(ck_chunks[k])
          /\ Len(ck_text) <= ck_size => ck_chunks = <<ck_text>>

\* three or more overlapping chunks, the last one short
C5_Witness ==
    /\ ck_pc = "returned"
    /\ Len(ck_chunks) >= 3
    /\ ck_overlap > 0
    /\ Len(ck_chunks[Len(ck_chunks)]) < ck_size

\* C6 (chunk windows): for a text longer than chunk_size, chunk k (0-based)
\* is text[k(C-O) : k(C-O)+C], all chunks but the last have C characters,
\* the last is the first window whose end reaches the end of the text,
\* consecutive chunks share O characters, and the documented example
\* yields ABCDE, DEFGH, GHIJ.
C6_ChunkWindows ==
    (ck_pc = "returned" /\ Len(ck_text) > ck_size) =>
      LET n == Len(ck_chunks)
          step == ck_size - ck_overlap
          start(k) == (k - 1) * step
      IN  /\ n >= 1
          /\ \A k \in 1..n :
               ck_chunks[k] = Slice(ck_text, start(k), start(k) + ck_size)
          /\ \A k \in 1..(n - 1) :
               /\ Len(ck_chunks[k]) = ck_size
               /\ start(k) + ck_size < Len(ck_text)
               /\ Len(ck_chunks[k + 1]) >= ck_overlap
               /\ Slice(ck_chunks[k], ck_size - ck_overlap, ck_size)
                    = Slice(ck_chunks[k + 1], 0, ck_overlap)
          /\ start(n) + ck_size >= Len(ck_text)
          /\ (ck_text = ExampleText /\ ck_size = 5 /\ ck_overlap = 2)
               => ck_chunks = << <<"A", "B", "C", "D", "E">>,
                                 <<"D", "E", "F", "G", "H">>,
                                 <<"G", "H", "I", "J">> >>

\* the documented example has been chunked
C6_Witness ==
    /\ ck_pc = "returned"
    /\ ck_text = ExampleText /\ ck_size = 5 /\ ck_overlap = 2
    /\ Len(ck_chunks) = 3

\* C7 (illegal chunk configuration is rejected): every configuration the
\* constructor accepts has 0 <= chunk_overlap < chunk_size, and no run
\* calls the chunker with an overlap that stops it from advancing.
C7_IllegalConfigRejected ==
    tool = "ready" =>
      /\ 0 <= config.chunk_overlap
      /\ config.chunk_overlap < config.chunk_size
      /\ \A t \in threads : wpc[t] # "hung"

\* C8 (threshold bound): every result of a successful call reports a
\* similarity_score that is at least the threshold of the call.
C8_ThresholdBound ==
    Returned("success") =>
      \A k \in 1..Len(cres.results) :
        cres.results[k].similarity_score >= cres.similarity_threshold

\* C9 (score range): every result of a successful call reports a
\* similarity_score between 0 and 1.
C9_ScoreRange ==
    Returned("success") =>
      \A k \in 1..Len(cres.results) :
        /\ 0 <= cres.results[k].similarity_score
        /\ cres.results[k].similarity_score <= Unit

\* C10 (ranking order): the candidates come in ascending distance, so the
\* observed similarities do not increase; the reported scores are a
\* subsequence of them in the same order and do not increase either.
C10_RankingOrder ==
    Returned("success") =>
      /\ NonIncreasing(cres.all_similarities)
      /\ IsSubsequence(Scores(cres.results), cres.all_similarities)
      /\ NonIncreasing(Scores(cres.results))

\* two results with different scores were returned
C10_Witness ==
    /\ Returned("success")
    /\ Len(cres.results) = 2
    /\ cres.results[1].similarity_score > cres.results[2].similarity_score

\* C11 (result bound): a successful call returns at most as many results as
\* its effective limit (the caller's, else the configured default) and
\* results_count is the length of the list; a call that returns without
\* searching returns no results.
C11_ResultBound ==
    cpc = "returned" =>
      /\ cres.results_count = Len(cres.results)
      /\ cres.status = "success" =>
            /\ cres.limit \in ParamOrDefault(CallerLimits, config.limit)
            /\ Len(cres.results) <= cres.limit
      /\ cres.status # "success" => cres.results = <<>>

\* the limit cut the result list: the collection holds more entries than
\* the call returned, and the call returned as many as its limit
C11_Witness ==
    /\ Returned("success")
    /\ Len(cres.results) = cres.limit
    /\ Cardinality(collection) > cres.limit

\* a file the scan would read: allowed extension, at the top level or one
\* level below
Allowed(entry) ==
    entry.kind = "file" /\ Lower(entry.name.suffix) \in config.file_extensions

NothingToIndex ==
    \/ ~fs.exists
    \/ \A k \in 1..Len(fs.entries) :
         /\ ~Allowed(fs.entries[k])
         /\ \A j \in 1..Len(fs.entries[k].children) :
              ~Allowed(fs.entries[k].children[j])

\* C12 (empty or missing directory): with a scan directory that is missing
\* or holds no file of an allowed extension, and an empty store,
\* construction with a valid configuration succeeds, the run never embeds
\* or upserts and the store stays empty, the flag is set when the worker
\* has ended and is set eventually, and every search call returns no
\* results.
C12_EmptyDirectory ==
    /\ [][(tool = "new" /\ ValidConfig(config) /\ tool' # tool)
            => tool' = "ready"]_vars
    /\ [][(tool = "ready" /\ NothingToIndex /\ collection = {})
            => collection' = {}]_vars
    /\ []((tool = "ready" /\ NothingToIndex /\ collection = {}) =>
            /\ \A t \in threads :
                 /\ wpc[t] \notin {"embed", "add", "hung"}
                 /\ wpc[t] = "done" => indexing_complete
            /\ cpc = "returned" => cres.results = <<>>)
    /\ (tool = "ready" /\ NothingToIndex /\ collection = {})
         ~> indexing_complete

\* a search of the empty store succeeded with no results after the run of
\* a directory without an allowed file set the flag
C12_Witness ==
    /\ fs.exists /\ fs.entries # <<>> /\ NothingToIndex
    /\ collection = {}
    /\ indexing_complete
    /\ \E t \in threads : wpc[t] = "done" /\ wloc[t].outcome = "complete"
    /\ Returned("success") /\ cres.results = <<>>

\* the path of every file under the scan directory (top level and one
\* level below) whose extension is not in the allow-list
DisallowedPaths ==
    {Append(ScanPath, fs.entries[k].name) :
        k \in {i \in 1..Len(fs.entries) :
                 fs.entries[i].kind = "file" /\ ~Allowed(fs.entries[i])}}
    \cup
    UNION {{<<ScanPath[1], fs.entries[k].name, fs.entries[k].children[j].name>> :
              j \in {i \in 1..Len(fs.entries[k].children) :
                       /\ fs.entries[k].children[i].kind = "file"
                       /\ ~Allowed(fs.entries[k].children[i])}} :
           k \in 1..Len(fs.entries)}

\* C13 (extension filtering): no result of a search call carries the path
\* of a file under the scan directory whose extension is not in the
\* configured allow-list.
C13_ExtensionFiltering ==
    Returned("success") =>
      \A k \in 1..Len(cres.results) :
        cres.results[k].file_path \notin DisallowedPaths

\* C14 (query errors are values): a call whose store count, query
\* embedding or nearest-neighbour search raises returns, in that same
\* step, the error result with an error field and the query of the call;
\* every call ends with one of the four results _execute builds, and a
\* missing or empty query ends the call with a result that has an error
\* field.
C14_ErrorsAreValues ==
    [][/\ (cpc \in {"count", "embed", "query"} /\ cpc' = "returned"
            /\ cres'.status \notin {"success", "indexing_in_progress"})
           => /\ cres'.status = "error"
              /\ cres'.has_error
              /\ cres'.query = cargs
              /\ cargs # ""
       /\ (cpc = "idle" /\ cpc' = "returned")
           => /\ cres' = MissingQueryResult
              /\ cres'.has_error
       /\ cpc' # cpc
           => cpc' \in {"idle", "count", "gate", "reconcile", "embed",
                        "query", "returned"}]_vars

\* the count went through and the embedding or the search raised
C14_Witness ==
    /\ Returned("error")
    /\ cres.has_error /\ cres.query = "q"
    /\ ccount > 0

\* a step of the current search call
ExecuteStep ==
    \/ ExecuteBegin
    \/ ExecuteCount
    \/ ExecuteGate
    \/ ExecuteReconcile
    \/ ExecuteEmbed
    \/ ExecuteQuery

\* C15 (callers never wait on indexing): construction can return and a
\* search call can start and take each of its steps in every state, also
\* while an indexing run holds the lock or hangs in it; and no step of
\* construction or of a search call takes or releases the lock.
C15_CallersNeverWait ==
    /\ tool = "new" => ENABLED Construct
    /\ (tool = "ready" /\ cpc # "returned") => ENABLED ExecuteStep
    /\ cpc \in {"idle", "returned"} \/ tool = "ready"
    /\ indexing_lock \in {"free"} \cup InRoutine

\* a search call returned an answer while the run that holds the lock
\* is stuck in the chunker
C15_Witness ==
    /\ \E t \in threads : wpc[t] = "hung" /\ indexing_lock = t
    /\ cpc = "returned"
    /\ cres.status \in {"success", "indexing_in_progress"}

\* C16 (batch failure): the step in which the embedding or the upsert of
\* a batch raises adds nothing to the store, leaves the flag as it is and
\* takes the run out of the with block; from then on the run embeds and
\* upserts nothing more and its steps do not write the flag; and no step
\* removes an entry from the store, so the batches upserted before stay.
C16_BatchFailure ==
    [][/\ \A t \in threads :
            /\ (wpc[t] \in {"embed", "add"}
                  /\ wloc'[t].outcome = "batch_failed")
                => /\ wpc'[t] = "exit"
                   /\ collection' = collection
                   /\ indexing_complete' = indexing_complete
            /\ wloc[t].outcome = "batch_failed"
                => /\ wloc'[t].outcome = "batch_failed"
                   /\ wpc'[t] \in {"exit", "done"}
                   /\ collection' = collection
                   /\ wpc'[t] # wpc[t]
                        => indexing_complete' = indexing_complete
       /\ collection \subseteq collection']_vars

\* the second batch of a directory of BatchSize + 1 chunks failed: the
\* first batch is in the store and the flag is not set
C16_Witness ==
    /\ fs.entries = ManyFiles
    /\ \E t \in threads : wpc[t] = "done" /\ wloc[t].outcome = "batch_failed"
    /\ Cardinality(collection) = BatchSize
    /\ ~indexing_complete

\* C17 (scan failure forces Complete): an exception leaves the scan phase
\* only before the first batch (nothing of the run has been upserted);
\* the run then upserts nothing, goes through the handler of
\* index_worker, and the flag is set when the worker has ended.
C17_ScanFailure ==
    [][\A t \in threads :
         /\ (wloc[t].outcome # "raised" /\ wloc'[t].outcome = "raised")
             => /\ wpc[t] = "scan"
                /\ wloc[t].i = 0
                /\ wpc'[t] = "exit"
                /\ collection' = collection
         /\ wloc[t].outcome = "raised"
             => /\ collection' = collection
                /\ wpc'[t] \in {"exit", "handler", "done"}
                /\ wpc[t] = "exit" => wpc'[t] \in {"exit", "handler"}
                /\ wpc'[t] = "done" => indexing_complete']_vars

\* listing a sub-directory failed after a file of the directory had been
\* read: the worker ended with the flag set and the store empty
C17_Witness ==
    /\ \E k \in 1..Len(fs.entries) :
         /\ Matches(fs.entries[k], config.file_extensions)
         /\ fs.entries[k].readable /\ fs.entries[k].decodable
    /\ \E k \in 1..Len(fs.entries) :
         fs.entries[k].kind = "dir" /\ ~fs.entries[k].listable
    /\ \E t \in threads : wpc[t] = "done" /\ wloc[t].outcome = "raised"
    /\ indexing_complete
    /\ collection = {}

\* C18 (the flag is lock-guarded): every step that changes
\* _indexing_complete is a step of the thread that holds the indexing
\* lock, the handler of index_worker runs with the lock held, and a search
\* call holds the lock when it reads the flag at the gate and when it
\* reconciles it.
C18_FlagLockGuarded ==
    [][/\ indexing_complete' # indexing_complete
           => \E t \in threads : indexing_lock = t /\ wpc'[t] # wpc[t]
       /\ \A t \in threads :
            (wpc[t] = "handler" /\ wpc'[t] # wpc[t]) => indexing_lock = t
       /\ (cpc \in {"gate", "reconcile"} /\ cpc' # cpc)
           => indexing_lock = "caller"]_vars

\* the runs between their first and their last batch upsert: a batch has
\* been added and another is being embedded or added
Upserting ==
    {t \in threads : wpc[t] \in {"embed", "add"} /\ wloc[t].i > 0}

\* C19 (reconciliation only after indexing finished): whenever the flag is
\* set, no indexing run is between its first and its last batch upsert.
C19_ReconcileAfterFinish == indexing_complete => Upserting = {}

\* C20 (one-shot trigger): the instance has the one worker thread its
\* constructor started; a thread is started only by construction and
\* enters the indexing routine only from its start, so it enters at most
\* once, and under fair scheduling it does enter; no step of a search
\* call moves a worker or starts one.
C20_OneShotTrigger ==
    /\ [](/\ Cardinality(threads) = 1
          /\ \A t \in AllThreads \ threads : wpc[t] = "absent")
    /\ [][/\ threads' = threads
          /\ \A t \in AllThreads :
               /\ (wpc[t] # "check_complete" /\ wpc'[t] = "check_complete")
                   => wpc[t] = "spawned"
               /\ (wpc[t] # "spawned" /\ wpc'[t] = "spawned")
                   => (tool = "new" /\ tool' = "ready" /\ wpc[t] = "absent")
          /\ cpc' # cpc => wpc' = wpc]_vars
    /\ (tool = "ready") ~> (\A t \in threads : wpc[t] # "spawned")

\* the run failed a batch and ended, a search call then reconciled the
\* flag and answered, and the worker stays ended
C20_Witness ==
    /\ \E t \in threads : wpc[t] = "done" /\ wloc[t].outcome = "batch_failed"
    /\ indexing_complete
    /\ Returned("success")

\* C21 (trigger while Complete is a no-op): a run that, holding the lock,
\* finds the flag set leaves the with block at once; it scans nothing,
\* reaches no embedding or upsert step, and none of its steps changes the
\* store or the flag.
C21_TriggerNoOp ==
    [][\A t \in threads :
         /\ (wpc[t] = "check_complete" /\ indexing_complete
               /\ wpc'[t] # wpc[t])
             => /\ indexing_lock = t
                /\ wpc'[t] = "exit"
                /\ wloc'[t] = [IdleRun EXCEPT !.outcome = "noop"]
                /\ collection' = collection
                /\ indexing_complete'
         /\ wloc[t].outcome = "noop"
             => /\ wloc'[t] = wloc[t]
                /\ wloc[t].scan = EmptyScan
                /\ wpc'[t] \in {"exit", "done"}
                /\ wpc'[t] # wpc[t]
                     => /\ collection' = collection
                        /\ indexing_complete' = indexing_complete]_vars

\* the second trigger found the flag set by the first run and ended
C21_Witness ==
    \E t \in threads, u \in threads :
        /\ t # u
        /\ wpc[t] = "done" /\ wloc[t].outcome = "complete"
        /\ wpc[u] = "done" /\ wloc[u].outcome = "noop"
        /\ collection # {}

\* C22 (id uniqueness): the ids one indexing run assigns are pairwise
\* distinct, one per accumulated chunk, whatever files the directory
\* holds (files without chunks and files with dropped blank chunks too).
C22_IdUniqueness ==
    \A t \in threads :
      LET ids == wloc[t].scan.ids
      IN  /\ Len(ids) = Len(wloc[t].scan.documents)
          /\ Len(ids) = Len(wloc[t].scan.metadatas)
          /\ Cardinality({ids[k] : k \in 1..Len(ids)}) = Len(ids)

\* a run gathered the chunks of two files, the first of which lost its
\* blank first chunk
C22_Witness ==
    \E t \in threads :
      LET scan == wloc[t].scan
      IN  /\ wpc[t] = "embed"
          /\ Len(scan.ids) >= 3
          /\ scan.metadatas[1].chunk_index > 0
          /\ scan.metadatas[Len(scan.ids)].file_name # scan.metadatas[1].file_name

\* C23 (collection identity is tied to the provider): the configuration of
\* the tool and the same configuration with another embedding provider
\* resolve to different persistent collections, and every vector in the
\* collection of the tool comes from the provider it is configured with.
C23_IdentityPerProvider ==
    tool = "ready" =>
      /\ \A p \in Providers \ {config.embedding_provider} :
           CollectionIdentity(ScanPath, ToolName, p)
             # CollectionIdentity(ScanPath, ToolName, config.embedding_provider)
      /\ \A e \in collection :
           e.embedding.provider = config.embedding_provider

\* a matching file the scan skips: open() fails or the bytes are not UTF-8
Skipped(entry) == Allowed(entry) /\ (~entry.readable \/ ~entry.decodable)

NotSkipped(entry) == ~Skipped(entry)

\* the directory with the skipped files taken away
WithoutSkipped(entries) ==
    LET top == SelectSeq(entries, NotSkipped)
    IN  [k \in 1..Len(top) |->
           [top[k] EXCEPT !.children = SelectSeq(@, NotSkipped)]]

\* C24 (undecodable files are skipped): a run that gets through its scan
\* leaves it with the chunks, metadata, ids and chunk count it would have
\* if the matching files that cannot be opened or decoded were not in the
\* directory, and goes on to the batches, or to the flag, as it would then.
C24_UndecodableSkipped ==
    [][\A t \in threads :
         (wpc[t] = "scan" /\ wpc'[t] \in {"embed", "mark"}) =>
           LET scan  == wloc'[t].scan
               clean == ScanTop(EmptyScan, ScanPath,
                                WithoutSkipped(fs.entries), 1,
                                config.chunk_size, config.chunk_overlap,
                                config.file_extensions)
           IN  /\ ~clean.raised /\ ~clean.hung
               /\ scan.documents = clean.documents
               /\ scan.metadatas = clean.metadatas
               /\ scan.ids = clean.ids
               /\ scan.doc_id = clean.doc_id
               /\ wpc'[t] = "embed" <=> clean.documents # <<>>]_vars

\* the scan went past a file it could not open or decode and read the
\* files of the sub-directory after it; the run completed with them
C24_Witness ==
    /\ \E j \in 1..Len(fs.entries), k \in 1..Len(fs.entries) :
         /\ j < k
         /\ Skipped(fs.entries[j])
         /\ fs.entries[k].kind = "dir" /\ fs.entries[k].listable
    /\ \E t \in threads : wpc[t] = "done" /\ wloc[t].outcome = "complete"
    /\ \E e \in collection : e.metadata.file_extension = ".MD"
    /\ indexing_complete

\* how many directories lie between the scan directory and the file
Depth(file_path) == Len(file_path) - Len(ScanPath) - 1

\* C25 (depth limit): every chunk a run gathers and every entry of the
\* store belongs to a file that is an immediate child of the scan
\* directory or of one of its immediate sub-directories.
C25_DepthLimit ==
    /\ \A t \in threads :
         \A k \in 1..Len(wloc[t].scan.metadatas) :
           Depth(wloc[t].scan.metadatas[k].file_path) \in {0, 1}
    /\ \A e \in collection : Depth(e.metadata.file_path) \in {0, 1}

\* a run completed over a directory whose sub-directory holds a matching
\* file and a directory with a matching file in it; the first is in the
\* store
C25_Witness ==
    /\ \E k \in 1..Len(fs.entries) :
         \E j \in 1..Len(fs.entries[k].children) :
           LET deeper == fs.entries[k].children[j]
           IN  /\ deeper.kind = "dir"
               /\ \E i \in 1..Len(deeper.children) :
                    Matches(deeper.children[i], config.file_extensions)
    /\ \E t \in threads : wpc[t] = "done" /\ wloc[t].outcome = "complete"
    /\ \E e \in collection : Depth(e.metadata.file_path) = 1

\* C26 (chunker termination): with chunk_size > 0 and 0 <= overlap <
\* chunk_size, every pass of the loop that goes on to another one has
\* raised start, the list never holds more chunks than the text has
\* characters (one for the empty text), the call returns, and what it
\* returns is the list of ChunkText.
C26_ChunkerTerminates ==
    /\ [][(ck_pc = "loop" /\ ck_pc' = "loop") => ck_start' > ck_start]_vars
    /\ [](/\ Len(ck_chunks) <= Len(ck_text) + 1
          /\ ck_start <= Len(ck_text)
          /\ ck_pc = "returned"
               => ck_chunks = ChunkText(ck_text, ck_size, ck_overlap))
    /\ <>(ck_pc = "returned")

\* the loop returned after four passes or more with an overlap
C26_Witness ==
    /\ ck_pc = "returned"
    /\ ck_start > 0
    /\ ck_overlap > 0
    /\ Len(ck_chunks) >= 4

\* C27 (no waiting after Complete): the flag stays set once it is set, and
\* a search call that reaches the test of line 405 with the flag set goes
\* on to the query, so no call that returns while the flag is set returns
\* the waiting status, whatever the store holds and wherever the worker
\* is.
C27_NoWaitingAfterComplete ==
    [][indexing_complete =>
         /\ indexing_complete'
         /\ (cpc = "gate" /\ cpc' # cpc) => cpc' = "reconcile"
         /\ (cpc # "returned" /\ cpc' = "returned")
             => cres'.status # "indexing_in_progress"]_vars

\* the handler set the flag after a failed scan, the store is empty, and a
\* search call was answered with success and no results
C27_Witness ==
    /\ indexing_complete
    /\ collection = {}
    /\ \E t \in threads : wpc[t] = "done" /\ wloc[t].outcome = "raised"
    /\ Returned("success")
    /\ cres.results = <<>>

\* nothing in the store was there before the run
StartedEmpty == collection \cap UNION StoredCollections = {}

\* a file the run should index: allowed extension, can be opened and
\* decoded
Indexable(entry) == Allowed(entry) /\ entry.readable /\ entry.decodable

\* <<path, file>> for the indexable files at depth <= 2
IndexableFiles ==
    {<<Append(ScanPath, fs.entries[k].name), fs.entries[k]>> :
        k \in {i \in 1..Len(fs.entries) : Indexable(fs.entries[i])}}
    \cup
    UNION {{<<ScanPath \o <<fs.entries[k].name, fs.entries[k].children[j].name>>,
              fs.entries[k].children[j]>> :
              j \in {i \in 1..Len(fs.entries[k].children) :
                       Indexable(fs.entries[k].children[i])}} :
           k \in {i \in 1..Len(fs.entries) :
                    fs.entries[i].kind = "dir" /\ fs.entries[i].listable}}

\* their chunks that are not blank, each with its file and its position
ExpectedChunks ==
    UNION {LET chunks == ChunkText(pf[2].content, config.chunk_size,
                                   config.chunk_overlap)
           IN  {[file_path |-> pf[1], chunk_index |-> i - 1,
                 document |-> chunks[i]] :
                  i \in {j \in 1..Len(chunks) : ~IsBlank(chunks[j])}} :
           pf \in IndexableFiles}

StoreChunks ==
    {[file_path |-> e.metadata.file_path,
      chunk_index |-> e.metadata.chunk_index,
      document |-> e.document] : e \in collection}

\* C28 (index completeness on the success path): every upsert adds the
\* next batch of at most BatchSize chunks in accumulation order, so that
\* a store that started empty holds the chunks before the next offset and
\* nothing else; and when a run over a store that started empty sets the
\* flag, the store holds exactly one entry for every non-blank chunk of
\* every indexable file at depth <= 2.
C28_IndexComplete ==
    [][\A t \in threads :
         LET scan == wloc[t].scan
             i    == wloc[t].i
             n    == Len(scan.documents)
             upto == Min(i + BatchSize, n)
         IN  /\ (wpc[t] = "add" /\ wpc'[t] \in {"embed", "mark"}) =>
                  /\ i % BatchSize = 0 /\ i < n
                  /\ wloc'[t].i = i + BatchSize
                  /\ StoreIds(collection') \ StoreIds(collection)
                       \subseteq {scan.ids[k] : k \in (i + 1)..upto}
                  /\ StartedEmpty' =>
                       /\ StoreIds(collection') = {scan.ids[k] : k \in 1..upto}
                       /\ Cardinality(collection') = upto
                  /\ wpc'[t] = "mark" <=> upto = n
             /\ (wpc[t] = "mark" /\ wpc'[t] # "mark" /\ StartedEmpty) =>
                  /\ indexing_complete'
                  /\ wloc'[t].outcome = "complete"
                  /\ collection' = collection
                  /\ StoreChunks = ExpectedChunks
                  /\ Cardinality(collection) = Cardinality(ExpectedChunks)
                  /\ Cardinality(collection) = n]_vars

\* a run over BatchSize + 1 one-chunk files and an empty store completed
\* with all of them in the store
C28_Witness ==
    /\ fs.entries = ManyFiles
    /\ StartedEmpty
    /\ \E t \in threads : wpc[t] = "done" /\ wloc[t].outcome = "complete"
    /\ Cardinality(collection) = BatchSize + 1
    /\ indexing_complete

\* C29 (waiting only while indexing is running): once every worker thread
\* of the instance has ended, no search call returns the waiting status.
C29_WaitingOnlyWhileRunning ==
    [][((\A t \in threads : wpc[t] = "done")
          /\ cpc # "returned" /\ cpc' = "returned")
        => cres'.status # "indexing_in_progress"]_vars

\* C30 (the run terminates and frees the lock): a thread that is not
\* inside the with block does not hold the lock, a thread that has ended
\* left on one of the five exit paths or found the flag set, and under
\* fair scheduling of the worker, with 0 <= overlap < chunk_size, every
\* run ends with the lock free.
C30_RunTerminates ==
    /\ [](\A t \in AllThreads :
            /\ wpc[t] \in {"absent", "spawned", "handler", "done"}
                => indexing_lock # t
            /\ wpc[t] = "done"
                => wloc[t].outcome \in {"noop", "missing_dir", "complete",
                                        "batch_failed", "raised"})
    /\ (tool = "ready" /\ 0 <= config.chunk_overlap
          /\ config.chunk_overlap < config.chunk_size)
         ~> (indexing_lock = "free" /\ \A t \in threads : wpc[t] = "done")

\* the run ended through the handler of index_worker and the lock is free
C30_Witness ==
    /\ indexing_lock = "free"
    /\ \E t \in threads : wpc[t] = "done" /\ wloc[t].outcome = "raised"
    /\ config.chunk_overlap < config.chunk_size

====
